---- MODULE Spec2Model ----
(***************************************************************************)
(* Model of src/app.py: the quiz generator generate_mcq_from_transcript,   *)
(* the answer evaluator evaluate_answers, process_media and the two form   *)
(* handlers (handle_generate, submit_btn.click -> evaluate_answers).       *)
(*                                                                         *)
(* A Python str is modelled as a sequence of one-character strings, so     *)
(* that split, strip, re.split and slicing are computed, not assumed.      *)
(***************************************************************************)
EXTENDS Integers, Sequences, FiniteSets, TLC

VARIABLES
    mode,           \* entry point the behaviour exercises: "gen", "eval" or "ui"
    pc,             \* position of the call in progress
    \* generate_mcq_from_transcript(transcript, num_questions)
    transcript,     \* argument
    num_questions,  \* argument
    sentences,      \* local: the kept sentences (line 37)
    questions,      \* the returned list; in mode "eval" the quiz argument
    \* evaluate_answers(quiz, *answers)
    answers,        \* the *answers tuple
    quiz_in,        \* the quiz as it was when the call started
    correct,        \* local counter, as the last call left it
    report,         \* the returned string
    prev_report,    \* the string returned by the call before, same arguments
    raised,         \* TRUE when the last call ended with an exception
    \* the Gradio form
    quiz_state,     \* gr.State([])
    transcript_box, \* gr.Textbox value
    question_boxes, \* three gr.Markdown: value, visible
    answer_radios,  \* three gr.Radio: choices, visible
    download_link,  \* gr.File: value, visible
    feedback_box,   \* gr.Textbox value
    pm_call         \* the last process_media call: arguments, outcomes, result

vars == <<mode, pc, transcript, num_questions, sentences, questions,
          answers, quiz_in, correct, report, prev_report, raised,
          quiz_state, transcript_box, question_boxes, answer_radios,
          download_link, feedback_box, pm_call>>

genVars == <<transcript, num_questions, sentences, questions>>
evalVars == <<answers, quiz_in, correct, report, prev_report>>
uiVars == <<quiz_state, transcript_box, question_boxes, answer_radios,
            download_link, feedback_box, pm_call>>

----------------------------------------------------------------------------
(* Python string primitives                                                *)

\* str.split() and the regex class \s: the whitespace characters in use
Whitespace == {" ", "\n"}

\* the regex class [.?!] of re.split(r'[.?!]\s+', ...)
Terminators == {".", "?", "!"}

\* the argument of w.strip(".,")
StripChars == {".", ","}

\* s[a..b] as a sequence, empty when a > b
Sub(s, a, b) == IF a > b THEN <<>> ELSE SubSeq(s, a, b)

\* Python s[:n]: the first n items for n >= 0, all but the last -n for n < 0
SliceTo(s, n) ==
    IF n >= 0
    THEN Sub(s, 1, IF n < Len(s) THEN n ELSE Len(s))
    ELSE Sub(s, 1, Len(s) + n)

\* Python s.strip(chars): drop leading and trailing characters in chars
RECURSIVE LStrip(_, _)
LStrip(s, chars) ==
    IF s # <<>> /\ Head(s) \in chars THEN LStrip(Tail(s), chars) ELSE s

RECURSIVE RStrip(_, _)
RStrip(s, chars) ==
    IF s # <<>> /\ s[Len(s)] \in chars
    THEN RStrip(Sub(s, 1, Len(s) - 1), chars)
    ELSE s

Strip(s, chars) == RStrip(LStrip(s, chars), chars)

\* Python s.split(): the maximal runs of non-whitespace, in order
RECURSIVE SplitFrom(_, _, _, _)
SplitFrom(s, p, cur, acc) ==
    IF p > Len(s)
    THEN IF cur = <<>> THEN acc ELSE Append(acc, cur)
    ELSE IF s[p] \in Whitespace
         THEN SplitFrom(s, p + 1, <<>>, IF cur = <<>> THEN acc ELSE Append(acc, cur))
         ELSE SplitFrom(s, p + 1, Append(cur, s[p]), acc)

Split(s) == SplitFrom(s, 1, <<>>, <<>>)

\* end of the whitespace run that starts at p (p - 1 when there is none)
RECURSIVE WsRunEnd(_, _)
WsRunEnd(s, p) ==
    IF p <= Len(s) /\ s[p] \in Whitespace THEN WsRunEnd(s, p + 1) ELSE p - 1

\* re.split(r'[.?!]\s+', s): scan left to right; a terminator followed by at
\* least one whitespace character ends the current piece and the match
\* swallows the terminator and the whole whitespace run; the remainder
\* (possibly empty) is the last piece
RECURSIVE ReSplitFrom(_, _, _, _)
ReSplitFrom(s, p, cur, acc) ==
    IF p > Len(s)
    THEN Append(acc, cur)
    ELSE IF s[p] \in Terminators /\ p < Len(s) /\ s[p + 1] \in Whitespace
         THEN ReSplitFrom(s, WsRunEnd(s, p + 1) + 1, <<>>, Append(acc, cur))
         ELSE ReSplitFrom(s, p + 1, Append(cur, s[p]), acc)

ReSplit(s) == ReSplitFrom(s, 1, <<>>, <<>>)

Min(a, b) == IF a < b THEN a ELSE b

\* str(n) for n >= 0, as characters
Digit(d) == <<"0", "1", "2", "3", "4", "5", "6", "7", "8", "9">>[d + 1]

RECURSIVE Str(_)
Str(n) == IF n < 10 THEN <<Digit(n)>> ELSE Str(n \div 10) \o <<Digit(n % 10)>>

\* sep.join(parts)
RECURSIVE Join(_, _)
Join(sep, parts) ==
    IF parts = <<>> THEN <<>>
    ELSE IF Len(parts) = 1 THEN Head(parts)
         ELSE Head(parts) \o sep \o Join(sep, Tail(parts))

Range(s) == {s[k] : k \in 1..Len(s)}

----------------------------------------------------------------------------
(* generate_mcq_from_transcript                                            *)

\* len(s.split()) > 3
MinTokens == 3

\* len(w.strip(".,")) > 3
MinWordLen == 3

\* min(3, len(all_words))
MaxDistractors == 3

\* sentence[:60]
PreviewLen == 60

\* num_questions=3
DefaultNumQuestions == 3

\* mutant: >= 3 in place of > 3
TokenCountOkFrom3(s) == Len(Split(s)) >= MinTokens

TokenCountOk(s) == Len(Split(s)) > MinTokens

\* mutant: the slice to num_questions is missing
SentencesUncut(t, n) == SelectSeq(ReSplit(t), TokenCountOk)

\* sentences = [s for s in re.split(...) if len(s.split()) > 3][:num_questions]
Sentences(t, n) == SliceTo(SelectSeq(ReSplit(t), TokenCountOk), n)

\* mutant: >= 3 in place of > 3
WordOkFrom3(w) == Len(Strip(w, StripChars)) >= MinWordLen

WordOk(w) == Len(Strip(w, StripChars)) > MinWordLen

\* words = [w.strip(".,") for w in sentence.split() if len(w.strip(".,")) > 3]
Words(sentence) ==
    LET toks == SelectSeq(Split(sentence), WordOk)
    IN  [k \in 1..Len(toks) |-> Strip(toks[k], StripChars)]

\* all_words = [w.strip(".,") for w in transcript.split()
\*              if len(w.strip(".,").strip()) > 3 and w.strip(".,") != answer]
AllWords(t, answer) ==
    LET Keep(w) == /\ Len(Strip(Strip(w, StripChars), Whitespace)) > MinWordLen
                   /\ Strip(w, StripChars) # answer
        toks == SelectSeq(Split(t), Keep)
    IN  [k \in 1..Len(toks) |-> Strip(toks[k], StripChars)]

Injections(k, n) ==
    {f \in [1..k -> 1..n] : \A a, b \in 1..k : a # b => f[a] # f[b]}

\* random.sample(pool, k): k items at pairwise distinct positions, any order
Sample(pool, k) ==
    {[j \in 1..k |-> pool[f[j]]] : f \in Injections(k, Len(pool))}

\* random.shuffle(s): any rearrangement of the positions
Shuffle(s) ==
    {[j \in 1..Len(s) |-> s[p[j]]] : p \in Injections(Len(s), Len(s))}

\* mutant: the answer is not appended to the sample
AppendAnswerMissing(sample, answer) == sample

\* options.append(answer)
AppendAnswer(sample, answer) == Append(sample, answer)

\* f"{i+1}. Key concept from: '{sentence[:60]}...'", i the enumerate index
Prompt(i, sentence) ==
    Str(i + 1) \o <<". Key concept from: '">> \o SliceTo(sentence, PreviewLen)
        \o <<"...'">>

\* the question dicts one loop iteration can append: one per outcome of
\* random.choice, random.sample and random.shuffle
QuestionsFor(t, i, sentence) ==
    LET words == Words(sentence)
    IN  UNION {
          LET all_words == AllWords(t, answer)
          IN  UNION {
                { [question |-> Prompt(i, sentence),
                   options  |-> options,
                   answer   |-> answer]
                  : options \in Shuffle(AppendAnswer(sample, answer)) }
                : sample \in Sample(all_words, Min(MaxDistractors, Len(all_words))) }
          : answer \in Range(words) }

\* for i, sentence in enumerate(sentences): ... (i is 0-based);
\* a sentence without words is skipped by `continue`
RECURSIVE Loop(_, _, _, _)
Loop(t, sents, i, acc) ==
    IF i >= Len(sents)
    THEN {acc}
    ELSE IF Words(sents[i + 1]) = <<>>
         THEN Loop(t, sents, i + 1, acc)
         ELSE UNION { Loop(t, sents, i + 1, Append(acc, q))
                      : q \in QuestionsFor(t, i, sents[i + 1]) }

\* every value generate_mcq_from_transcript(t, n) can return
GenerateMcq(t, n) == Loop(t, Sentences(t, n), 0, <<>>)

----------------------------------------------------------------------------
(* evaluate_answers                                                        *)

\* Python None, which equals no string
None == <<"None">>

\* the marks that open a feedback line: U+2705 and U+274C, each followed by " Q"
CorrectMark == "(U+2705) Q"
WrongMark == "(U+274C) Q"

\* mutant: the counter is not reset per call
InitCorrectStale == correct

\* correct = 0
InitCorrect == 0

\* mutant: <= in place of <
InRangeInclusive(i, ans) == i <= Len(ans)

\* i < len(answers), i the 0-based enumerate index
InRange(i, ans) == i < Len(ans)

\* f"(U+2705) Q{i+1}: Correct! ({answers[i]})"
CorrectLine(i, ans) ==
    <<CorrectMark>> \o Str(i + 1) \o <<": Correct! (">> \o ans[i + 1] \o <<")">>

\* f"(U+274C) Q{i+1}: Wrong! Correct: {q['answer']}"
WrongLine(i, q) ==
    <<WrongMark>> \o Str(i + 1) \o <<": Wrong! Correct: ">> \o q.answer

\* f"\nFinal Score: {correct}/{len(quiz)}"
SummaryLine(cnt, quiz, ans) ==
    <<"\n", "Final Score: ">> \o Str(cnt) \o <<"/">> \o Str(Len(quiz))

\* for i, q in enumerate(quiz): ...; answers[i] past the end is an IndexError
RECURSIVE EvalLoop(_, _, _, _, _)
EvalLoop(quiz, ans, i, cnt, feedback) ==
    IF i >= Len(quiz)
    THEN [raised |-> FALSE, correct |-> cnt, feedback |-> feedback]
    ELSE IF InRange(i, ans)
         THEN IF i + 1 > Len(ans)
              THEN [raised |-> TRUE, correct |-> cnt, feedback |-> feedback]
              ELSE IF ans[i + 1] = quiz[i + 1].answer
                   THEN EvalLoop(quiz, ans, i + 1, cnt + 1,
                                 Append(feedback, CorrectLine(i, ans)))
                   ELSE EvalLoop(quiz, ans, i + 1, cnt,
                                 Append(feedback, WrongLine(i, quiz[i + 1])))
         ELSE EvalLoop(quiz, ans, i + 1, cnt,
                       Append(feedback, WrongLine(i, quiz[i + 1])))

\* evaluate_answers(quiz, *answers): the outcome of one call
EvaluateAnswers(quiz, ans) ==
    LET r == EvalLoop(quiz, ans, 0, InitCorrect, <<>>)
    IN  IF r.raised
        THEN [raised |-> TRUE, correct |-> r.correct, value |-> <<>>]
        ELSE [raised |-> FALSE,
              correct |-> r.correct,
              value |-> Join(<<"\n">>,
                             Append(r.feedback, SummaryLine(r.correct, quiz, ans)))]

----------------------------------------------------------------------------
(* process_media and handle_generate                                       *)

\* `not x` for a path or a list: None, "" and [] are falsy
Falsy(x) == x = None \/ x = <<>>

\* mutant: only decoding errors are caught
CatchesDecodeOnly(e) == e = <<"decode failed">>

\* except Exception as e: every exception the body raises is caught
Catches(e) == TRUE

\* the body of the try block; ext, tr and tmp are what extract_audio,
\* model.transcribe and create_temp_file do in this call (each either
\* raises e or returns), quiz is what generate_mcq_from_transcript returns
TryBody(ext, tr, quiz, tmp) ==
    IF ext.raises THEN [exc |-> TRUE, e |-> ext.e]
    ELSE IF tr.raises THEN [exc |-> TRUE, e |-> tr.e]
    ELSE LET t == Join(<<" ">>, tr.segments)
         IN  IF Strip(t, Whitespace) = <<>>
             THEN [exc |-> FALSE,
                   ret |-> [msg |-> <<"No transcript generated.">>,
                            quiz |-> <<>>, file |-> None]]
             ELSE IF tmp.raises THEN [exc |-> TRUE, e |-> tmp.e]
             ELSE [exc |-> FALSE,
                   ret |-> [msg |-> t, quiz |-> quiz, file |-> tmp.path]]

\* TRUE when the call gets as far as generate_mcq_from_transcript(transcript)
ReachesGenerate(file_path, ext, tr) ==
    /\ ~Falsy(file_path)
    /\ ~ext.raises
    /\ ~tr.raises
    /\ Strip(Join(<<" ">>, tr.segments), Whitespace) # <<>>

\* process_media(file_path): raised tells whether an exception left the call
ProcessMedia(file_path, ext, tr, quiz, tmp) ==
    IF Falsy(file_path)
    THEN [raised |-> FALSE, msg |-> <<"Please upload a file.">>,
          quiz |-> <<>>, file |-> None]
    ELSE LET b == TryBody(ext, tr, quiz, tmp)
         IN  IF ~b.exc
             THEN [raised |-> FALSE, msg |-> b.ret.msg,
                   quiz |-> b.ret.quiz, file |-> b.ret.file]
             ELSE IF Catches(b.e)
                  THEN [raised |-> FALSE, msg |-> <<"Error: ">> \o b.e,
                        quiz |-> <<>>, file |-> None]
                  ELSE [raised |-> TRUE, msg |-> <<>>,
                        quiz |-> <<>>, file |-> None]

\* file_path = video_path if video_path else audio_path
ChooseFile(video_path, audio_path) ==
    IF ~Falsy(video_path) THEN video_path ELSE audio_path

\* gr.update(visible=False) on a component
Hide(c) == [c EXCEPT !.visible = FALSE]

\* the number of question slots of the form: range(3)
Slots == 3

\* mutant: the early return leaves the stored quiz as it is
StateOutputKeep(quiz) == IF quiz = <<>> THEN quiz_state ELSE quiz

\* the value handle_generate returns for the quiz_state output
StateOutput(quiz) == quiz

\* what handle_generate's return value does to the form, given the tuple
\* process_media returned
QuestionBoxesAfter(boxes, quiz) ==
    [k \in 1..Slots |->
        IF quiz # <<>> /\ k <= Len(quiz)
        THEN [value |-> quiz[k].question, visible |-> TRUE]
        ELSE Hide(boxes[k])]

AnswerRadiosAfter(radios, quiz) ==
    [k \in 1..Slots |->
        IF quiz # <<>> /\ k <= Len(quiz)
        THEN [choices |-> quiz[k].options, visible |-> TRUE]
        ELSE Hide(radios[k])]

DownloadLinkAfter(link, quiz, file_link) ==
    IF quiz = <<>> THEN Hide(link) ELSE [value |-> file_link, visible |-> TRUE]

----------------------------------------------------------------------------
(* Inputs                                                                  *)

\* most phrases of one transcript
MaxUnits == 5

\* largest requested number of questions
MaxN == 2

\* longest quiz handed to evaluate_answers directly
MaxQuiz == 3

\* longest answer tuple handed to evaluate_answers directly
MaxAnswers == 4

Lamp == <<"l", "a", "m", "p">>
Tree == <<"t", "r", "e", "e">>

\* phrases: three short tokens (1, 2 and 3 characters), the same closed by a
\* terminator, a bare four-letter word, and a four-letter word with a leading
\* full stop, a trailing comma and a closing terminator
Vocab ==
    { <<"a", " ", "b", "c", " ", "d", "e", "f">>,
      <<"a", " ", "b", "c", " ", "d", "e", "f", ".">>,
      Lamp,
      <<".", "t", "r", "e", "e", ",", "!">> }

UnitSeqs == UNION {[1..k -> Vocab] : k \in 0..MaxUnits}

Transcripts == {Join(<<" ">>, u) : u \in UnitSeqs}

NumQuestionsVals == (0 - 1)..MaxN

\* quizzes for evaluate_answers: question dicts as the generator builds them
EvalQuestion(k, answer) ==
    [question |-> Prompt(k - 1, <<"a", " ", "b", "c", " ", "d", "e", "f", " ", "l", "a", "m", "p", " ", "t", "r", "e", "e">>),
     options |-> <<Tree, Lamp>>,
     answer |-> answer]

EvalQuizzes ==
    UNION { {[k \in 1..n |-> EvalQuestion(k, a[k])] : a \in [1..n -> {Lamp, Tree}]}
            : n \in 0..MaxQuiz }

\* what a radio can hold: nothing, or an option
AnswerVals == {None, Lamp, Tree}

AnswerTuples == UNION {[1..n -> AnswerVals] : n \in 0..MaxAnswers}

\* paths the two upload components hand to handle_generate
VideoPaths == {None, <<"v">>}
AudioPaths == {None, <<>>, <<"a">>}

\* extract_audio: returns, or raises while decoding
ExtractOutcomes ==
    { [called |-> TRUE, raises |-> FALSE, e |-> <<>>],
      [called |-> TRUE, raises |-> TRUE, e |-> <<"decode failed">>] }

Seg1 == <<" ", "l", "a", "m", "p", " ", "a", " ", "b", "c", " ", "d", "e", "f", ".">>
Seg2 == <<" ", "t", "r", "e", "e", ",", " ", "a", " ", "b", "c", " ", "d", "e", "f", ".">>

\* model.transcribe: raises, or returns segments whose texts are joined
TranscribeOutcomes ==
    { [called |-> TRUE, raises |-> TRUE, e |-> <<"transcribe failed">>,
       segments |-> <<>>] }
    \cup
    { [called |-> TRUE, raises |-> FALSE, e |-> <<>>, segments |-> g] :
        g \in { <<>>,
                << <<" ">>, <<"\n">> >>,
                << <<" ", "a", " ", "b", "c", " ", "d", "e", "f", ".">> >>,
                << Seg1, Seg2 >>,
                << <<" ", "a", " ", "b", "c", " ", "d", "e", "f", " ", "a", ".">>, Seg2 >>,
                << Seg1, Seg1, Seg1, Seg1 >> } }

\* create_temp_file: returns the path, or raises while writing
TempFileOutcomes ==
    { [called |-> TRUE, raises |-> FALSE, e |-> <<>>,
       path |-> <<"/tmp/transcript.txt">>],
      [called |-> TRUE, raises |-> TRUE, e |-> <<"write failed">>,
       path |-> None] }

\* a collaborator the call never reached
ExtractNotCalled == [called |-> FALSE, raises |-> FALSE, e |-> <<>>]
TranscribeNotCalled ==
    [called |-> FALSE, raises |-> FALSE, e |-> <<>>, segments |-> <<>>]
TempFileNotCalled ==
    [called |-> FALSE, raises |-> FALSE, e |-> <<>>, path |-> None]

----------------------------------------------------------------------------
(* Initial states                                                          *)

NoCall ==
    [file_path |-> None,
     ext |-> ExtractNotCalled,
     tr |-> TranscribeNotCalled,
     tmp |-> TempFileNotCalled,
     result |-> [raised |-> FALSE, msg |-> <<>>, quiz |-> <<>>, file |-> None]]

GenIdle ==
    /\ transcript = <<>>
    /\ num_questions = DefaultNumQuestions
    /\ sentences = <<>>

EvalIdle ==
    /\ answers = <<>>
    /\ quiz_in = <<>>
    /\ correct = 0
    /\ report = <<>>
    /\ prev_report = <<>>

\* the form as the gr.Blocks block builds it
FormInit ==
    /\ quiz_state = <<>>
    /\ transcript_box = <<>>
    /\ question_boxes = [k \in 1..Slots |-> [value |-> <<>>, visible |-> FALSE]]
    /\ answer_radios = [k \in 1..Slots |-> [choices |-> <<>>, visible |-> FALSE]]
    /\ download_link = [value |-> None, visible |-> FALSE]
    /\ feedback_box = <<>>
    /\ pm_call = NoCall

\* a caller about to call generate_mcq_from_transcript(transcript, num_questions)
InitGen ==
    /\ mode = "gen"
    /\ pc = "call"
    /\ transcript \in Transcripts
    /\ num_questions \in NumQuestionsVals
    /\ sentences = <<>>
    /\ questions = <<>>
    /\ raised = FALSE
    /\ EvalIdle
    /\ FormInit

\* a caller about to call evaluate_answers(questions, *answers)
InitEval ==
    /\ mode = "eval"
    /\ pc = "call"
    /\ questions \in EvalQuizzes
    /\ quiz_in = questions
    /\ answers \in AnswerTuples
    /\ correct = 0
    /\ report = <<>>
    /\ prev_report = <<>>
    /\ raised = FALSE
    /\ GenIdle
    /\ FormInit

\* the form just launched
InitUI ==
    /\ mode = "ui"
    /\ pc = "idle"
    /\ questions = <<>>
    /\ raised = FALSE
    /\ GenIdle
    /\ EvalIdle
    /\ FormInit

----------------------------------------------------------------------------
(* Actions                                                                 *)

\* questions = generate_mcq_from_transcript(transcript, num_questions)
Generate ==
    /\ mode = "gen"
    /\ pc = "call"
    /\ sentences' = Sentences(transcript, num_questions)
    /\ questions' \in GenerateMcq(transcript, num_questions)
    /\ pc' = "returned"
    /\ UNCHANGED <<mode, transcript, num_questions, raised>>
    /\ UNCHANGED evalVars
    /\ UNCHANGED uiVars

\* report = evaluate_answers(questions, *answers), called a first and then a
\* second time with the same arguments
Evaluate ==
    /\ mode = "eval"
    /\ pc \in {"call", "returned"}
    /\ LET r == EvaluateAnswers(questions, answers)
       IN  /\ report' = r.value
           /\ correct' = r.correct
           /\ raised' = r.raised
    /\ prev_report' = report
    /\ pc' = IF pc = "call" THEN "returned" ELSE "again"
    /\ UNCHANGED <<mode, questions, answers, quiz_in>>
    /\ UNCHANGED <<transcript, num_questions, sentences>>
    /\ UNCHANGED uiVars

\* start_btn.click: handle_generate(video_path, audio_path) and the update of
\* its nine outputs
HandleGenerate ==
    /\ mode = "ui"
    /\ \E video_path \in VideoPaths, audio_path \in AudioPaths :
        LET file_path == ChooseFile(video_path, audio_path)
        IN
        \E ext \in (IF Falsy(file_path) THEN {ExtractNotCalled}
                    ELSE ExtractOutcomes) :
        \E tr \in (IF Falsy(file_path) \/ ext.raises THEN {TranscribeNotCalled}
                   ELSE TranscribeOutcomes) :
        \E tmp \in (IF ReachesGenerate(file_path, ext, tr) THEN TempFileOutcomes
                    ELSE {TempFileNotCalled}) :
        \E quiz \in (IF ReachesGenerate(file_path, ext, tr)
                     THEN GenerateMcq(Join(<<" ">>, tr.segments),
                                      DefaultNumQuestions)
                     ELSE {<<>>}) :
                LET res == ProcessMedia(file_path, ext, tr, quiz, tmp)
                IN  /\ pm_call' = [file_path |-> file_path, ext |-> ext,
                                   tr |-> tr, tmp |-> tmp, result |-> res]
                    /\ raised' = res.raised
                    /\ IF res.raised
                       THEN UNCHANGED <<quiz_state, transcript_box,
                                        question_boxes, answer_radios,
                                        download_link>>
                       ELSE /\ transcript_box' = res.msg
                            /\ question_boxes' =
                                   QuestionBoxesAfter(question_boxes, res.quiz)
                            /\ answer_radios' =
                                   AnswerRadiosAfter(answer_radios, res.quiz)
                            /\ quiz_state' = StateOutput(res.quiz)
                            /\ download_link' =
                                   DownloadLinkAfter(download_link, res.quiz,
                                                     res.file)
    /\ pc' = "generated"
    /\ UNCHANGED <<mode, questions, feedback_box>>
    /\ UNCHANGED <<transcript, num_questions, sentences>>
    /\ UNCHANGED evalVars

\* submit_btn.click: evaluate_answers(quiz_state, *the three radios' values)
\* with its result shown in feedback_box
Submit ==
    /\ mode = "ui"
    /\ \E a \in [1..Slots -> AnswerVals] :
          LET r == EvaluateAnswers(quiz_state, a)
          IN  /\ raised' = r.raised
              /\ feedback_box' = IF r.raised THEN feedback_box ELSE r.value
    /\ pc' = "submitted"
    /\ UNCHANGED <<mode, questions, quiz_state, transcript_box, question_boxes,
                   answer_radios, download_link, pm_call>>
    /\ UNCHANGED <<transcript, num_questions, sentences>>
    /\ UNCHANGED evalVars

NextGen == Generate

NextEval == Evaluate

NextUI == HandleGenerate \/ Submit

\* direct calls of generate_mcq_from_transcript
Spec == InitGen /\ [][NextGen]_vars

\* direct calls of evaluate_answers
SpecEval == InitEval /\ [][NextEval]_vars

\* a session of the form
SpecUI == InitUI /\ [][NextUI]_vars

----------------------------------------------------------------------------
(* What the specification says, stated independently of the operators      *)
(* above: by positions in the text rather than by scanning it              *)

ClaimWs == {" ", "\n"}
ClaimTerminators == {".", "?", "!"}
ClaimStripped == {".", ","}

\* positions of a terminator that is followed by whitespace
SepStarts(t) ==
    {p \in 1..(Len(t) - 1) : t[p] \in ClaimTerminators /\ t[p + 1] \in ClaimWs}

\* last position of the whitespace run after the terminator at p
SepLast(t, p) ==
    CHOOSE q \in (p + 1)..Len(t) :
        /\ \A r \in (p + 1)..q : t[r] \in ClaimWs
        /\ q = Len(t) \/ t[q + 1] \notin ClaimWs

\* the j-th separator, counted from the left
NthSep(t, j) ==
    CHOOSE p \in SepStarts(t) : Cardinality({q \in SepStarts(t) : q < p}) = j - 1

\* the units between the separators, in transcript order
Units(t) ==
    LET K == Cardinality(SepStarts(t))
    IN  [j \in 1..(K + 1) |->
           Sub(t,
               IF j = 1 THEN 1 ELSE SepLast(t, NthSep(t, j - 1)) + 1,
               IF j = K + 1 THEN Len(t) ELSE NthSep(t, j) - 1)]

\* where the whitespace-delimited tokens of s start
TokenStarts(s) ==
    {a \in 1..Len(s) : s[a] \notin ClaimWs /\ (a = 1 \/ s[a - 1] \in ClaimWs)}

\* where the token starting at a ends
TokenEnd(s, a) ==
    CHOOSE b \in a..Len(s) :
        /\ \A r \in a..b : s[r] \notin ClaimWs
        /\ b = Len(s) \/ s[b + 1] \in ClaimWs

\* indexes of the units with more than 3 tokens
Qualifying(t) ==
    {j \in DOMAIN Units(t) : Cardinality(TokenStarts(Units(t)[j])) > 3}

\* the first n qualifying units, in transcript order
FirstQualifying(t, n) ==
    LET Q == Qualifying(t)
        F == {j \in Q : Cardinality({i \in Q : i < j}) < n}
        Nth(k) == CHOOSE j \in F : Cardinality({i \in F : i < j}) = k - 1
    IN  [k \in 1..Cardinality(F) |-> Units(t)[Nth(k)]]

\* the token s[a..b] without its leading and trailing '.' and ','
StrippedToken(s, a, b) ==
    LET inner == {r \in a..b : s[r] \notin ClaimStripped}
    IN  IF inner = {} THEN <<>>
        ELSE Sub(s, CHOOSE c \in inner : \A r \in inner : c <= r,
                    CHOOSE d \in inner : \A r \in inner : r <= d)

\* the stripped tokens of s that are longer than 3 characters
EligibleWords(s) ==
    {w \in {StrippedToken(s, a, TokenEnd(s, a)) : a \in TokenStarts(s)} : Len(w) > 3}

\* TRUE when question dict q was built from the j-th kept sentence
BuiltFrom(q, j) == q.question = Prompt(j - 1, sentences[j])

\* the pieces of s between occurrences of sep
RECURSIVE PiecesFrom(_, _, _, _, _)
PiecesFrom(s, sep, p, cur, acc) ==
    IF p > Len(s) THEN Append(acc, cur)
    ELSE IF s[p] = sep
         THEN PiecesFrom(s, sep, p + 1, <<>>, Append(acc, cur))
         ELSE PiecesFrom(s, sep, p + 1, Append(cur, s[p]), acc)

Lines(s) == PiecesFrom(s, "\n", 1, <<>>, <<>>)

StartsWith(s, prefix) ==
    Len(s) >= Len(prefix) /\ SubSeq(s, 1, Len(prefix)) = prefix

----------------------------------------------------------------------------
(* Claims about generate_mcq_from_transcript, under Spec                   *)

\* C1 as stated: for every transcript and every bound N, negative bounds
\* included, the returned quiz has at most N questions.
C1_LengthAtMostN_AnyN ==
    pc = "returned" => Len(questions) <= num_questions

\* C1, amended: for every transcript and every bound N >= 0, whatever the
\* random choices, the returned quiz has at most N questions.
C1_LengthAtMostN ==
    (pc = "returned" /\ num_questions >= 0) => Len(questions) <= num_questions

\* the bound cut the sentence list: more units qualify than were asked for,
\* and the quiz is exactly as long as the bound
C1_Witness ==
    /\ pc = "returned"
    /\ num_questions >= 1
    /\ Cardinality(Qualifying(transcript)) > num_questions
    /\ Len(questions) = num_questions

\* C2: in every returned quiz, every question's correct answer is one of its
\* options and the question has at most 4 options.
C2_AnswerAmongOptions ==
    pc = "returned" =>
        \A k \in 1..Len(questions) :
            /\ questions[k].answer \in Range(questions[k].options)
            /\ Len(questions[k].options) <= 4

\* a question with the full four options was returned
C2_Witness ==
    /\ pc = "returned"
    /\ \E k \in 1..Len(questions) :
          /\ Len(questions[k].options) = 4
          /\ questions[k].answer \in Range(questions[k].options)

\* C3: in every returned quiz, no option occurs twice in a question's options:
\* the distractors are pairwise distinct and none equals the correct answer.
C3_OptionsDistinct ==
    pc = "returned" =>
        \A k \in 1..Len(questions) :
            \A a, b \in 1..Len(questions[k].options) :
                a # b => questions[k].options[a] # questions[k].options[b]

\* C8: every question's correct answer is a whitespace-delimited token of the
\* sentence it was built from, stripped of '.' and ',', longer than 3
\* characters; a kept sentence without such a token has no question.
C8_AnswerFromSentence ==
    pc = "returned" =>
        /\ \A k \in 1..Len(questions) :
              \E j \in 1..Len(sentences) :
                  /\ BuiltFrom(questions[k], j)
                  /\ questions[k].answer \in EligibleWords(sentences[j])
        /\ \A j \in 1..Len(sentences) :
              EligibleWords(sentences[j]) = {} =>
                  \A k \in 1..Len(questions) : ~BuiltFrom(questions[k], j)

\* a quiz with a question, from kept sentences one of which had no eligible
\* token and was skipped
C8_Witness ==
    /\ pc = "returned"
    /\ questions # <<>>
    /\ \E j \in 1..Len(sentences) : EligibleWords(sentences[j]) = {}

\* C9 as stated: the sentences questions are built from are the first N
\* qualifying units, for every N (no unit is "among the first N" when N < 0).
C9_FirstNQualifying_AnyN ==
    pc = "returned" =>
        sentences = FirstQualifying(transcript, num_questions)

\* C9, amended: for N >= 0, the sentences questions are built from are exactly
\* the first N, in transcript order, of the units (split where '.', '?' or '!'
\* is followed by whitespace) with more than 3 tokens; every question is built
\* from one of them, and without a qualifying unit the quiz is empty.
C9_FirstNQualifying ==
    (pc = "returned" /\ num_questions >= 0) =>
        /\ sentences = FirstQualifying(transcript, num_questions)
        /\ \A k \in 1..Len(questions) :
              \E j \in 1..Len(sentences) : BuiltFrom(questions[k], j)
        /\ Qualifying(transcript) = {} => questions = <<>>

\* a unit of exactly 3 tokens was dropped, a later one was kept and a
\* qualifying one was cut off by the bound
C9_Witness ==
    /\ pc = "returned"
    /\ num_questions >= 1
    /\ Len(sentences) = num_questions
    /\ Cardinality(Qualifying(transcript)) > num_questions
    /\ \E j \in DOMAIN Units(transcript) :
          /\ Cardinality(TokenStarts(Units(transcript)[j])) = 3
          /\ \E i \in Qualifying(transcript) : j < i
    /\ questions # <<>>

\* C10: the question at 0-based position k of a returned quiz shows the
\* number k+1 in its prompt, the number evaluate_answers gives that position
\* in its report.
C10_PromptNumberIsPosition ==
    pc = "returned" =>
        \A k \in 1..Len(questions) :
            LET r == EvaluateAnswers(questions, <<>>)
            IN  /\ StartsWith(Lines(r.value)[k], <<WrongMark>> \o Str(k)
                                                    \o <<": Wrong! Correct: ">>)
                /\ StartsWith(questions[k].question,
                              Str(k) \o <<". Key concept from: '">>)

----------------------------------------------------------------------------
(* Claims about evaluate_answers, under SpecEval                           *)

\* TRUE when position k (1-based) was answered with the correct answer
AnsweredRight(quiz, ans, k) == k <= Len(ans) /\ ans[k] = quiz[k].answer

\* C4: for every quiz and answer tuple of any length the call returns without
\* error; the report holds exactly len(quiz) per-question lines in quiz order,
\* line k a "correct" line exactly when k is within the answers and the answer
\* equals the question's correct answer, otherwise a "wrong" line naming the
\* correct answer; after them (and the empty line that the summary's leading
\* newline makes) comes one summary line, (number of correct lines)/len(quiz).
C4_ReportShape ==
    (mode = "eval" /\ pc # "call") =>
        LET n == Len(questions)
            lines == Lines(report)
            right == {k \in 1..n : AnsweredRight(questions, answers, k)}
        IN  /\ ~raised
            /\ Len(lines) = n + 2
            /\ \A k \in 1..n :
                  lines[k] = IF k \in right
                             THEN <<CorrectMark>> \o Str(k) \o <<": Correct! (">>
                                      \o answers[k] \o <<")">>
                             ELSE <<WrongMark>> \o Str(k)
                                      \o <<": Wrong! Correct: ">>
                                      \o questions[k].answer
            /\ lines[n + 1] = <<>>
            /\ lines[n + 2] = <<"Final Score: ">> \o Str(Cardinality(right))
                                 \o <<"/">> \o Str(n)

\* a quiz of three questions scored against a single, correct, answer
C4_Witness ==
    /\ mode = "eval"
    /\ pc = "returned"
    /\ Len(questions) = 3
    /\ Len(answers) = 1
    /\ answers[1] = questions[1].answer
    /\ correct = 1

----------------------------------------------------------------------------
(* Claims about process_media and the form, under SpecUI                   *)

\* the transcript of the last process_media call
CallTranscript == Join(<<" ">>, pm_call.tr.segments)

\* TRUE when a step of the last process_media call raised
CallRaised == pm_call.ext.raises \/ pm_call.tr.raises \/ pm_call.tmp.raises

\* C6: process_media never raises; without a file path, with an empty or
\* whitespace-only transcript, and whenever decoding, transcription or a later
\* step raises, it returns a message (starting "Error:" when a step raised),
\* an empty quiz and no artifact.
C6_ProcessMediaTotal ==
    (mode = "ui" /\ pm_call # NoCall) =>
        LET r == pm_call.result
        IN  /\ ~r.raised
            /\ ~raised
            /\ Falsy(pm_call.file_path) =>
                  /\ r.msg = <<"Please upload a file.">>
                  /\ r.quiz = <<>>
                  /\ r.file = None
            /\ CallRaised =>
                  /\ StartsWith(r.msg, <<"Error: ">>)
                  /\ r.quiz = <<>>
                  /\ r.file = None
            /\ (pm_call.tr.called /\ ~pm_call.tr.raises
                  /\ \A p \in 1..Len(CallTranscript) :
                        CallTranscript[p] \in ClaimWs) =>
                  /\ r.msg = <<"No transcript generated.">>
                  /\ r.quiz = <<>>
                  /\ r.file = None

\* the last step of a call, writing the transcript file, raised
C6_Witness ==
    /\ mode = "ui"
    /\ pc = "generated"
    /\ pm_call.tmp.called
    /\ pm_call.tmp.raises
    /\ StartsWith(transcript_box, <<"Error: ">>)

\* C7: the stored quiz is always the one the most recent Generate obtained
\* from process_media, the empty quiz when that call did not get as far as
\* generating questions; Submit leaves it alone and reports on that quiz.
C7_SubmitScoresLatestQuiz ==
    mode = "ui" =>
        /\ quiz_state = pm_call.result.quiz
        /\ ~ReachesGenerate(pm_call.file_path, pm_call.ext, pm_call.tr) =>
              quiz_state = <<>>
        /\ pc = "submitted" =>
              \E a \in [1..Slots -> AnswerVals] :
                  feedback_box = EvaluateAnswers(pm_call.result.quiz, a).value

\* Submit after a failed Generate that followed a successful one: the form
\* still holds the earlier quiz's first prompt (hidden), the stored quiz is
\* empty and the report is the empty quiz's
C7_Witness ==
    /\ mode = "ui"
    /\ pc = "submitted"
    /\ question_boxes[1].value # <<>>
    /\ CallRaised
    /\ quiz_state = <<>>
    /\ feedback_box = EvaluateAnswers(<<>>, <<>>).value

====
